---- MODULE Spec2Model ----
(***************************************************************************)
(* kopf/config.py: the logging set-up routine configure() and the legacy   *)
(* WorkersConfig mutator set_synchronous_tasks_threadpool_limit(), with    *)
(* the run settings (posting.settings_var -> OperatorSettings) it writes.  *)
(*                                                                         *)
(* Optional[T] values are sequences: None is <<>> and a value v is <<v>>.  *)
(***************************************************************************)
EXTENDS Integers, Sequences, FiniteSets

\* ----------------------------------------------------------------- bounds
\* The largest limit a caller passes.
MaxLimit == 2
\* Arguments below 1 range over -MaxInvalid+1 .. 0.
MaxInvalid == 2
\* Operator runs (settings objects, run contexts) that are ever started.
MaxRuns == 2
\* Threads that call the mutator concurrently.
NumThreads == 2
\* configure() calls (each leaves one more handler on the root logger).
MaxConfigures == 3
\* Handlers a library logger holds at most.
MaxHandlers == 3
\* Stream handlers the kubernetes client adds to "urllib3" while its default
\* configuration is rebuilt in one configure() call.
MaxK8sHandlers == 2

None == <<>>
Some(v) == <<v>>
Val(o) == o[1]

\* new_limit arguments, valid and invalid.
Limits == (1 - MaxInvalid)..MaxLimit
\* Context 0 is the load-time context, which never hosts a run; a run started
\* in context c >= 1 binds settings_var there.
Contexts == 0..MaxRuns
RunContexts == 1..MaxRuns
Threads == 1..NumThreads
\* What a run's max_workers can be given as at its start: unvalidated.
LimitValues == {None} \cup {Some(n) : n \in 0..MaxLimit}
NoOverride == <<>>
Overrides == {NoOverride} \cup {<<v>> : v \in LimitValues}

\* Optional[bool] flags.
Flags == {None, Some(TRUE), Some(FALSE)}
\* The loggers configure() silences, in the order of its loop.
NoisyLoggers == <<"urllib3", "asyncio", "kubernetes">>
NoisyNames == {NoisyLoggers[i] : i \in 1..Len(NoisyLoggers)}

VARIABLES
  \* logging.getLogger(): its handlers (by class, in order) and its level.
  root,
  \* logging.getLogger(name) for the three noisy loggers: handlers, propagate.
  loggers,
  \* asyncio.get_event_loop().get_debug()
  loop_debug,
  \* Whether `import kubernetes` succeeds in this process.
  kubernetes_importable,
  \* kubernetes.client.configuration.Configuration's default: None until set.
  kubernetes_default,
  \* The latest logging operation: configure() with its arguments and what
  \* the kubernetes client did during it, or a library adding a handler.
  configured,
  \* WorkersConfig.synchronous_tasks_threadpool_limit, the class attribute.
  synchronous_tasks_threadpool_limit,
  \* The OperatorSettings objects created so far, by identity (index);
  \* max_workers is settings.execution.max_workers.
  settings,
  \* posting.settings_var per context: None (get() raises LookupError) or
  \* Some(identity of the bound object).
  settings_var,
  \* How the latest call ended: the operation, its arguments, what it raised.
  outcome,
  \* History variable: how far the latest operations match the end-to-end
  \* scenario (first run, set 2, second run).
  e2e,
  \* Per thread inside the mutator: pc, new_limit, the local `settings`
  \* reference, and how its latest call returned.
  threads

workers_vars == <<synchronous_tasks_threadpool_limit, settings, settings_var,
                  outcome, e2e, threads>>

logging_vars == <<root, loggers, loop_debug, kubernetes_importable,
                  kubernetes_default, configured>>

\* ------------------------------------------------------------ configure()
\* Python truthiness of an Optional[bool]: None and False are falsy.
Truthy(flag) == flag = Some(TRUE)

\* log_level = 'DEBUG' if debug or verbose else 'WARNING' if quiet else 'INFO'
LogLevelQuietFirst(debug, verbose, quiet) ==
  IF Truthy(quiet) THEN "WARNING"
  ELSE IF Truthy(debug) \/ Truthy(verbose) THEN "DEBUG" ELSE "INFO"
LogLevel(debug, verbose, quiet) ==
  IF Truthy(debug) \/ Truthy(verbose) THEN "DEBUG"
  ELSE IF Truthy(quiet) THEN "WARNING" ELSE "INFO"

\* logger.setLevel(name): the level's number, as logging resolves the name.
CheckLevel(name) ==
  CASE name = "DEBUG" -> 10
    [] name = "INFO" -> 20
    [] name = "WARNING" -> 30

\* logger.addHandler(handler) with a handler constructed for this call: it is
\* not among the logger's handlers, so it is appended.
AddHandlerOnce(handlers, handler) ==
  IF \E i \in 1..Len(handlers) : handlers[i] = handler
  THEN handlers ELSE Append(handlers, handler)
AddHandler(handlers, handler) == Append(handlers, handler)

\* The kubernetes client's Configuration() and its logger_file setter add
\* their own stream handlers to "urllib3": k of them, by the client's version.
AfterKubernetesClient(handlers, k) ==
  handlers \o [i \in 1..k |-> "StreamHandler"]

\* if not debug: del logger.handlers[1:]
AfterDelTail(handlers, debug) ==
  IF ~Truthy(debug) /\ handlers # <<>> THEN <<Head(handlers)>> ELSE handlers

\* logger.propagate = bool(debug); if not debug: logger.handlers[:] = [NullHandler()]
SilencedKeepingHandlers(logger, debug) ==
  [propagate |-> Truthy(debug),
   handlers |-> IF ~Truthy(debug) THEN Append(logger.handlers, "NullHandler")
                ELSE logger.handlers]
Silenced(logger, debug) ==
  [propagate |-> Truthy(debug),
   handlers |-> IF ~Truthy(debug) THEN <<"NullHandler">> ELSE logger.handlers]

\* loop.set_debug(bool(debug))
LoopDebugUnlessFalse(debug) == debug # Some(FALSE)
LoopDebug(debug) == Truthy(debug)

configure(debug, verbose, quiet, k) ==
  /\ Len(root.handlers) < MaxConfigures
  /\ k > 0 => kubernetes_importable
  /\ Truthy(debug) => Len(loggers["urllib3"].handlers) + k <= MaxHandlers
  /\ root' = [handlers |-> AddHandler(root.handlers, "StreamHandler"),
              level |-> CheckLevel(LogLevel(debug, verbose, quiet))]
  /\ kubernetes_default' =
        IF kubernetes_importable
        THEN Some([logger_format |-> "format", logger_file |-> None, debug |-> debug])
        ELSE kubernetes_default
  /\ LET urllib3 == AfterDelTail(
                       AfterKubernetesClient(loggers["urllib3"].handlers, k), debug)
         cleaned == [loggers EXCEPT !["urllib3"].handlers = urllib3]
     IN  loggers' = [name \in NoisyNames |-> Silenced(cleaned[name], debug)]
  /\ loop_debug' = LoopDebug(debug)
  /\ configured' = [op |-> "configure", debug |-> debug, verbose |-> verbose,
                    quiet |-> quiet, k8s_handlers |-> k]
  /\ UNCHANGED kubernetes_importable
  /\ UNCHANGED workers_vars

\* A library (the kubernetes client, urllib3's add_stderr_logger, ...) adds
\* a stream handler of its own to one of the noisy loggers.
LibraryAddsHandler(name) ==
  /\ Len(loggers[name].handlers) < MaxHandlers
  /\ loggers' = [loggers EXCEPT ![name].handlers = Append(@, "StreamHandler")]
  /\ configured' = [op |-> "library", debug |-> None, verbose |-> None,
                    quiet |-> None, k8s_handlers |-> 0]
  /\ UNCHANGED <<root, loop_debug, kubernetes_importable, kubernetes_default>>
  /\ UNCHANGED workers_vars

\* ------------------------------------------------------- the mutator's code
\* The state the mutator reads and writes, as one value.
Memory == [static |-> synchronous_tasks_threadpool_limit, settings |-> settings]

\* if new_limit < 1: raise ValueError
RejectedOffByOne(new_limit) == new_limit < 0
RejectedNever(new_limit) == FALSE
Rejected(new_limit) == new_limit < 1

\* WorkersConfig.synchronous_tasks_threadpool_limit = new_limit
AfterStaticWriteSkipped(mem, new_limit) == mem
AfterStaticWrite(mem, new_limit) == [mem EXCEPT !.static = Some(new_limit)]

\* posting.settings_var.get() in context ctx; None stands for LookupError.
LookupStale(ctx) ==
  IF settings_var[ctx] = None /\ Len(settings) > 0
  THEN Some(Len(settings))
  ELSE settings_var[ctx]
Lookup(ctx) == settings_var[ctx]

\* settings.execution.max_workers = new_limit
AfterLiveWriteReplaced(mem, obj, new_limit) ==
  [mem EXCEPT !.settings = Append(@, [max_workers |-> Some(new_limit)])]
AfterLiveWrite(mem, obj, new_limit) ==
  [mem EXCEPT !.settings[obj].max_workers = Some(new_limit)]

\* The try/except/else: the live write happens only when the lookup succeeds.
AfterPropagation(mem, found, new_limit) ==
  IF found = None THEN mem ELSE AfterLiveWrite(mem, Val(found), new_limit)

\* ---------------------------------------------------------- run settings
\* A new run's max_workers: the explicit value, else the static default as
\* read when the settings object is constructed.
InitialLimit(default, override) ==
  IF override = NoOverride THEN default ELSE override[1]

\* The scenario monitor after a run is started.
E2EAfterStart(override, obj) ==
  IF override = NoOverride /\ e2e.phase = "set"
  THEN [e2e EXCEPT !.phase = "run2", !.second = obj]
  ELSE IF override = NoOverride /\ synchronous_tasks_threadpool_limit = None
  THEN [phase |-> "run1", first |-> obj, second |-> 0]
  ELSE [phase |-> "none", first |-> 0, second |-> 0]

\* The scenario monitor after a call of the mutator.
E2EAfterSet(ctx, new_limit) ==
  IF /\ e2e.phase = "run1"
     /\ new_limit = 2
     /\ settings_var[ctx] = Some(e2e.first)
  THEN [e2e EXCEPT !.phase = "set"]
  ELSE [phase |-> "none", first |-> 0, second |-> 0]

\* An operator run starts in context ctx: a settings object is constructed
\* and bound to settings_var for the run's tasks.
StartRun(ctx, override) ==
  /\ settings_var[ctx] = None
  /\ Len(settings) < MaxRuns
  /\ settings' = Append(settings,
        [max_workers |-> InitialLimit(synchronous_tasks_threadpool_limit, override)])
  /\ settings_var' = [settings_var EXCEPT ![ctx] = Some(Len(settings) + 1)]
  /\ outcome' = [op |-> "start", ctx |-> ctx, arg |-> override, raised |-> "none"]
  /\ e2e' = E2EAfterStart(override, Len(settings) + 1)
  /\ UNCHANGED <<synchronous_tasks_threadpool_limit, threads>>
  /\ UNCHANGED logging_vars

\* ------------------------------------------- the mutator, called alone
set_synchronous_tasks_threadpool_limit(ctx, new_limit) ==
  /\ IF Rejected(new_limit)
     THEN /\ outcome' = [op |-> "set", ctx |-> ctx, arg |-> Some(new_limit),
                         raised |-> "ValueError"]
          /\ UNCHANGED <<synchronous_tasks_threadpool_limit, settings>>
     ELSE LET mem == AfterPropagation(AfterStaticWrite(Memory, new_limit),
                                      Lookup(ctx), new_limit)
          IN  /\ synchronous_tasks_threadpool_limit' = mem.static
              /\ settings' = mem.settings
              /\ outcome' = [op |-> "set", ctx |-> ctx, arg |-> Some(new_limit),
                             raised |-> "none"]
  /\ e2e' = E2EAfterSet(ctx, new_limit)
  /\ UNCHANGED <<settings_var, threads>>
  /\ UNCHANGED logging_vars

\* ------------------------------- the mutator, statement by statement
\* Thread t, running in a copy of context ctx, enters the mutator.
Enter(t, ctx, new_limit) ==
  /\ threads[t].pc = "idle"
  /\ threads' = [threads EXCEPT ![t].pc = "validate", ![t].ctx = ctx,
                                ![t].new_limit = new_limit, ![t].settings = None]
  /\ UNCHANGED <<synchronous_tasks_threadpool_limit, settings, settings_var,
                 outcome, e2e>>
  /\ UNCHANGED logging_vars

\* if new_limit < 1: raise ValueError
Validate(t) ==
  /\ threads[t].pc = "validate"
  /\ threads' = IF Rejected(threads[t].new_limit)
                THEN [threads EXCEPT ![t].pc = "idle", ![t].result = "ValueError"]
                ELSE [threads EXCEPT ![t].pc = "write_static"]
  /\ UNCHANGED <<synchronous_tasks_threadpool_limit, settings, settings_var,
                 outcome, e2e>>
  /\ UNCHANGED logging_vars

\* WorkersConfig.synchronous_tasks_threadpool_limit = new_limit
WriteStatic(t) ==
  /\ threads[t].pc = "write_static"
  /\ synchronous_tasks_threadpool_limit' =
        AfterStaticWrite(Memory, threads[t].new_limit).static
  /\ threads' = [threads EXCEPT ![t].pc = "lookup"]
  /\ UNCHANGED <<settings, settings_var, outcome, e2e>>
  /\ UNCHANGED logging_vars

\* settings = posting.settings_var.get(); except LookupError: pass
LookupSettings(t) ==
  /\ threads[t].pc = "lookup"
  /\ threads' = IF Lookup(threads[t].ctx) = None
                THEN [threads EXCEPT ![t].pc = "idle", ![t].result = "static_only"]
                ELSE [threads EXCEPT ![t].pc = "write_live",
                                     ![t].settings = Lookup(threads[t].ctx)]
  /\ UNCHANGED <<synchronous_tasks_threadpool_limit, settings, settings_var,
                 outcome, e2e>>
  /\ UNCHANGED logging_vars

\* else: settings.execution.max_workers = new_limit
WriteLive(t) ==
  /\ threads[t].pc = "write_live"
  /\ settings' = AfterLiveWrite(Memory, Val(threads[t].settings),
                                threads[t].new_limit).settings
  /\ threads' = [threads EXCEPT ![t].pc = "idle", ![t].result = "both"]
  /\ UNCHANGED <<synchronous_tasks_threadpool_limit, settings_var, outcome, e2e>>
  /\ UNCHANGED logging_vars

\* ------------------------------------------------------------------ Init
InitWorkers ==
  /\ synchronous_tasks_threadpool_limit = None
  /\ settings = <<>>
  /\ settings_var = [c \in Contexts |-> None]
  /\ outcome = [op |-> "none", ctx |-> 0, arg |-> None, raised |-> "none"]
  /\ e2e = [phase |-> "none", first |-> 0, second |-> 0]
  /\ threads = [t \in Threads |->
        [pc |-> "idle", ctx |-> 0, new_limit |-> 0, settings |-> None,
         result |-> "none"]]

\* A fresh interpreter: the root logger at WARNING with no handlers, the
\* library loggers propagating, "urllib3" with its default NullHandler once
\* urllib3 has been imported, the event loop not in debug mode.
InitLogging ==
  /\ root = [handlers |-> <<>>, level |-> CheckLevel("WARNING")]
  /\ \E h \in {<<>>, <<"NullHandler">>} :
        loggers = [name \in NoisyNames |->
                     [propagate |-> TRUE,
                      handlers |-> IF name = "urllib3" THEN h ELSE <<>>]]
  /\ loop_debug = FALSE
  /\ kubernetes_importable \in BOOLEAN
  /\ kubernetes_default = None
  /\ configured = [op |-> "none", debug |-> None, verbose |-> None,
                   quiet |-> None, k8s_handlers |-> 0]

Init == InitLogging /\ InitWorkers

NextLogging ==
  \/ \E debug \in Flags, verbose \in Flags, quiet \in Flags,
        k \in 0..MaxK8sHandlers : configure(debug, verbose, quiet, k)
  \/ \E name \in NoisyNames : LibraryAddsHandler(name)

NextWorkers ==
  \/ \E ctx \in RunContexts, override \in Overrides : StartRun(ctx, override)
  \/ \E ctx \in Contexts, new_limit \in Limits :
        set_synchronous_tasks_threadpool_limit(ctx, new_limit)

\* Synchronous handlers of the one active run, each in its own thread with a
\* copy of the run's context (context 1), call the mutator with no lock.
NextConcurrent ==
  \/ \E override \in Overrides : StartRun(1, override)
  \/ \E t \in Threads, new_limit \in Limits : Enter(t, 1, new_limit)
  \/ \E t \in Threads : Validate(t)
  \/ \E t \in Threads : WriteStatic(t)
  \/ \E t \in Threads : LookupSettings(t)
  \/ \E t \in Threads : WriteLive(t)

vars == <<logging_vars, workers_vars>>

SpecLogging == Init /\ [][NextLogging]_vars
SpecWorkers == Init /\ [][NextWorkers]_vars
SpecConcurrent == Init /\ [][NextConcurrent]_vars

\* C1: a call with new_limit < 1 raises ValueError and changes neither the
\* static default, nor any run's settings, nor what is bound.
C1_InvalidLimitRejected ==
  [][ (outcome'.op = "set" /\ Val(outcome'.arg) < 1)
      => /\ outcome'.raised = "ValueError"
         /\ synchronous_tasks_threadpool_limit' = synchronous_tasks_threadpool_limit
         /\ settings' = settings
         /\ settings_var' = settings_var ]_vars

\* C1's case: a rejected call made in a run's context after a default was set.
C1_Witness ==
  /\ outcome.op = "set"
  /\ outcome.raised = "ValueError"
  /\ settings_var[outcome.ctx] # None
  /\ synchronous_tasks_threadpool_limit # None

\* C2: with a run's settings bound in the calling context, a call with
\* n >= 1 raises nothing and leaves the static default and the bound object's
\* max_workers at n; the same object stays bound and no object is created.
C2_BoundRunUpdatedInPlace ==
  [][ ( /\ outcome'.op = "set"
        /\ Val(outcome'.arg) >= 1
        /\ settings_var[outcome'.ctx] # None )
      => /\ outcome'.raised = "none"
         /\ synchronous_tasks_threadpool_limit' = outcome'.arg
         /\ settings_var' = settings_var
         /\ Len(settings') = Len(settings)
         /\ settings'[Val(settings_var[outcome'.ctx])].max_workers = outcome'.arg ]_vars

\* C2's case: a successful call in a run's context whose limit now reads n.
C2_Witness ==
  /\ outcome.op = "set"
  /\ outcome.raised = "none"
  /\ settings_var[outcome.ctx] # None
  /\ settings[Val(settings_var[outcome.ctx])].max_workers = outcome.arg
  /\ synchronous_tasks_threadpool_limit = outcome.arg

\* C3: with nothing bound in the calling context, a call with n >= 1 raises
\* nothing, sets the static default to n, and leaves every settings object and
\* every binding as it was.
C3_UnboundOnlyStatic ==
  [][ ( /\ outcome'.op = "set"
        /\ Val(outcome'.arg) >= 1
        /\ settings_var[outcome'.ctx] = None )
      => /\ outcome'.raised = "none"
         /\ synchronous_tasks_threadpool_limit' = outcome'.arg
         /\ settings' = settings
         /\ settings_var' = settings_var ]_vars

\* C3's case: a successful call from an unbound context while a run exists
\* in another context, whose limit still differs from the new default.
C3_Witness ==
  /\ outcome.op = "set"
  /\ outcome.raised = "none"
  /\ settings_var[outcome.ctx] = None
  /\ \E c \in RunContexts :
        /\ settings_var[c] # None
        /\ settings[Val(settings_var[c])].max_workers
             # synchronous_tasks_threadpool_limit

\* C4: a run started while the default is None, then set(2) called in that
\* run's context: the run's limit and the default read 2; a run started next
\* with no override reads 2 as well.
C4_EndToEnd ==
  /\ e2e.phase \in {"set", "run2"} =>
        /\ synchronous_tasks_threadpool_limit = Some(2)
        /\ settings[e2e.first].max_workers = Some(2)
  /\ e2e.phase = "run2" => settings[e2e.second].max_workers = Some(2)

\* C4's case: the whole scenario has happened.
C4_Witness ==
  /\ e2e.phase = "run2"
  /\ e2e.first # e2e.second
  /\ outcome.op = "start"

\* C5: the static default is None or an integer >= 1, never returns to None
\* once set, and a limit the mutator writes to a run's settings is >= 1.
C5_LimitAtLeastOne ==
  /\ [](synchronous_tasks_threadpool_limit = None
        \/ Val(synchronous_tasks_threadpool_limit) >= 1)
  /\ [][ /\ synchronous_tasks_threadpool_limit # None
            => synchronous_tasks_threadpool_limit' # None
         /\ outcome'.op = "set" =>
              \A o \in 1..Len(settings) :
                 settings'[o] # settings[o] =>
                    /\ settings'[o].max_workers # None
                    /\ Val(settings'[o].max_workers) >= 1 ]_vars

\* C5's case: a rejected call from an unbound context after the mutator has
\* written the default and a run's limit.
C5_Witness ==
  /\ outcome.op = "set"
  /\ outcome.raised = "ValueError"
  /\ settings_var[outcome.ctx] = None
  /\ synchronous_tasks_threadpool_limit # None
  /\ \E o \in 1..Len(settings) :
        settings[o].max_workers = synchronous_tasks_threadpool_limit

\* C6: after configure the root level is DEBUG (10) if debug or verbose is
\* true, else WARNING (30) if quiet is true, else INFO (20).
C6_RootLevel ==
  configured.op = "configure" =>
    root.level =
      IF configured.debug = <<TRUE>> \/ configured.verbose = <<TRUE>> THEN 10
      ELSE IF configured.quiet = <<TRUE>> THEN 30
      ELSE 20

\* C6's case: verbose and quiet both given, verbose wins.
C6_Witness ==
  /\ configured.op = "configure"
  /\ configured.debug # <<TRUE>>
  /\ configured.verbose = <<TRUE>>
  /\ configured.quiet = <<TRUE>>
  /\ root.level = 10

\* C7: after configure with debug false or unset each noisy logger has
\* exactly one handler, a NullHandler, and does not propagate; after configure
\* with debug true each propagates.
C7_NoisyLoggersSilenced ==
  configured.op = "configure" =>
    \A name \in {"urllib3", "asyncio", "kubernetes"} :
       IF configured.debug = <<TRUE>>
       THEN loggers[name].propagate = TRUE
       ELSE /\ loggers[name].handlers = <<"NullHandler">>
            /\ loggers[name].propagate = FALSE

\* C7's case: a non-debug configure during which the kubernetes client added
\* handlers of its own, after an earlier configure.
C7_Witness ==
  /\ configured.op = "configure"
  /\ configured.debug = <<FALSE>>
  /\ configured.k8s_handlers > 0
  /\ Len(root.handlers) > 1
  /\ loggers["urllib3"].handlers = <<"NullHandler">>

\* C8: each configure call appends exactly one stream handler to the root
\* logger's handlers and removes none; the level is the last call's.
C8_RootHandlerPerCall ==
  [][ configured'.op = "configure"
      => /\ root'.handlers = root.handlers \o <<"StreamHandler">>
         /\ root'.level =
              CASE configured'.debug = <<TRUE>> \/ configured'.verbose = <<TRUE>> -> 10
                [] OTHER -> IF configured'.quiet = <<TRUE>> THEN 30 ELSE 20 ]_vars

\* C8's case: configure has been called more than once.
C8_Witness ==
  /\ configured.op = "configure"
  /\ Len(root.handlers) >= 2
  /\ \A i \in 1..Len(root.handlers) : root.handlers[i] = "StreamHandler"

\* C10: the event loop's debug flag after configure is bool(debug); with
\* debug not true and verbose true the root level is DEBUG and yet the noisy
\* loggers are silenced and the loop's debug flag is false.
C10_SuppressionByDebugAlone ==
  configured.op = "configure" =>
    /\ loop_debug = (configured.debug = <<TRUE>>)
    /\ (configured.debug # <<TRUE>> /\ configured.verbose = <<TRUE>>) =>
          /\ root.level = 10
          /\ loop_debug = FALSE
          /\ \A name \in {"urllib3", "asyncio", "kubernetes"} :
                /\ loggers[name].handlers = <<"NullHandler">>
                /\ loggers[name].propagate = FALSE

\* C10's case: verbose without debug, debug left unset.
C10_Witness ==
  /\ configured.op = "configure"
  /\ configured.debug = None
  /\ configured.verbose = <<TRUE>>
  /\ loop_debug = FALSE
  /\ root.level = 10

\* C9: with a run bound, whenever no call is in progress and a call that
\* wrote both values has completed, the static default equals the run's limit.
C9_EventualConsistency ==
  ( /\ \A t \in Threads : threads[t].pc = "idle"
    /\ \E t \in Threads : threads[t].result = "both" )
  => synchronous_tasks_threadpool_limit
       = settings[Val(settings_var[1])].max_workers
====
